---- MODULE Spec2Model ----
(***************************************************************************)
(* Model of max-osc-python.py: an OSC service node built on txosc and the  *)
(* Twisted reactor.  One OscServer object holds the parameters, the ping   *)
(* counter and the two UDP ports; the reactor reads datagrams from the     *)
(* receive socket and hands each one to txosc, which decodes it and calls  *)
(* the callbacks registered in listen().                                   *)
(*                                                                         *)
(* Numbers are integers: the phase fields' 0.0 is 0, sensor samples are    *)
(* integer-valued numbers, and the float32 conversion of the trajectory    *)
(* buffer is computed on them exactly (24-bit significand, ties to even).  *)
(* An OSC address is the sequence of the characters after its leading "/"  *)
(* (every address used here has one path part).  A datagram carries the    *)
(* number of bytes recvfrom() returns for it.                              *)
(*                                                                         *)
(* Library behaviour the script relies on: txosc matches a message's       *)
(* address against the registered addresses as an OSC address pattern and  *)
(* calls every matching callback, the fallback when none matches; the      *)
(* receive port reads queued datagrams in a loop, catching and logging any *)
(* exception a datagram raises; reactor.stop() sets a flag the reactor     *)
(* acts on at its next iteration.  Every datagram carries one message      *)
(* (OSC bundles are not among the inputs).                                 *)
(***************************************************************************)
EXTENDS Integers, Sequences, FiniteSets, TLC

VARIABLES
    state,        \* runtime state: Created, Listening, Running, Stopped
    exit,         \* process outcome: "none", "clean" (run() returned), "error"
    stopped,      \* reactor._stopped, set by reactor.stop()
    inRead,       \* the reactor is inside the receive port's doRead loop
    read,         \* bytes doRead has received so far in its current pass
    sockbuf,      \* datagrams queued on the receive socket, oldest first
    seqbuf,       \* arrival number of each queued datagram
    current,      \* the datagrams whose handling is in progress, innermost last
    arrivals,     \* number of datagrams sent to the receive port so far
    dropped,      \* datagrams lost on arrival (no open socket, or a full queue)
    recvSock,     \* receive socket: "unbound", "open", "closed"
    sendSock,     \* send socket: "unbound", "open", "closed"
    closes,       \* number of times the pair of sockets was closed
    callbacks,    \* receiver's address table: set of [pattern, cb]
    fallback,     \* receiver.fallback
    xfreq, yfreq, xphase, yphase,   \* OscServer._xfreq ... _yphase
    ping_count,   \* OscServer._ping_count
    sent,         \* every datagram handed to the send socket, in order
    trace         \* one record per datagram taken from the receive socket

vars == <<state, exit, stopped, inRead, read, sockbuf, seqbuf, current, arrivals, dropped, recvSock,
          sendSock, closes, callbacks, fallback, xfreq, yfreq, xphase, yphase,
          ping_count, sent, trace>>

(* ------------------------------ bounds -------------------------------- *)

\* datagrams the environment sends during one run
MaxArrivals == 2
\* capacity of the receive socket's queue, in datagrams
MaxQueue == 2

(* ----------------------------- constants ------------------------------ *)

PYTHON_NODE_RECV_PORT == 12001
PYTHON_NODE_SEND_PORT == 12000

\* np.float32 carries a 24-bit significand: integers below 2^24 are exact
F32_SIGNIFICAND == 16777216

\* listenUDP(..., maxPacketSize=60000): recvfrom() returns at most so many
\* bytes of a datagram
maxPacketSize == 60000
\* udp.Port.maxThroughput (256 * 1024): doRead returns once it has received
\* so many bytes, queued datagrams or not
maxThroughput == 262144

\* shape of the trajectory buffer
cols == 10
rows == 2

(* ----------------------------- addresses ------------------------------ *)

A_reset     == <<"r","e","s","e","t">>
A_quit      == <<"q","u","i","t">>
A_ping      == <<"p","i","n","g">>
A_xfreq     == <<"x","f","r","e","q">>
A_yfreq     == <<"y","f","r","e","q">>
A_nextframe == <<"n","e","x","t","f","r","a","m","e">>
A_pong      == <<"p","o","n","g">>
A_trajectory == <<"t","r","a","j","e","c","t","o","r","y">>

\* addresses no callback is registered for
A_other     == <<"o","t","h","e","r">>
\* braces make a pattern for txosc, but fnmatch reads them as plain characters
A_braces    == <<"{","p","i","n","g",",","q","u","i","t","}">>
\* OSC address patterns: a message's address may carry wildcards
A_qfreq     == <<"?","f","r","e","q">>
A_pqstar    == <<"[","p","q","]","*">>
A_nstar     == <<"*","n","*">>
\* a class with a descending range: the pattern does not compile
A_qpstar    == <<"[","q","-","p","]","*">>

RegisteredAddresses == {A_reset, A_quit, A_ping, A_xfreq, A_yfreq, A_nextframe}

\* the callbacks listen() registers, in its order
Registrations ==
    << [pattern |-> A_reset,     cb |-> "msg_reset"],
       [pattern |-> A_quit,      cb |-> "msg_quit"],
       [pattern |-> A_ping,      cb |-> "msg_ping"],
       [pattern |-> A_xfreq,     cb |-> "msg_xfreq"],
       [pattern |-> A_yfreq,     cb |-> "msg_yfreq"],
       [pattern |-> A_nextframe, cb |-> "msg_nextframe"] >>

Range(s) == {s[i] : i \in DOMAIN s}

(* ------------------------------- inputs ------------------------------- *)

\* senders: (host, source port)
Sender1 == <<"10.0.0.1", 5001>>
Sender2 == <<"10.0.0.2", 5002>>
Senders == {Sender1, Sender2}

Pad4(n) == 4 * ((n + 3) \div 4)

\* bytes of an OSC message with integer arguments: the address and the type
\* tag string, each ended by a NUL and padded to a multiple of four, and four
\* bytes per argument
oscSize(a, args) == Pad4(Len(a) + 2) + Pad4(Len(args) + 2) + 4 * Len(args)

Msg(a, args, s) ==
    [ok |-> TRUE, address |-> a, args |-> args, sender |-> s, size |-> oscSize(a, args)]

\* a datagram txosc cannot decode (truncated, bad type tag, bad padding), as
\* long as recvfrom() lets a datagram be
Malformed ==
    [ok |-> FALSE, address |-> <<>>, args |-> <<>>, sender |-> Sender1,
     size |-> maxPacketSize]

Datagrams ==
    {Msg(A_ping, <<>>, s) : s \in Senders}
    \cup {Msg(A_nextframe, <<>>, Sender2)}
    \cup {Msg(A_xfreq, args, Sender1) : args \in {<<>>, <<7, 9>>}}
    \cup {Msg(A_yfreq, args, Sender1) : args \in {<<>>, <<8>>}}
    \cup {Msg(A_qfreq, <<6>>, Sender1)}
    \cup {Msg(a, <<>>, Sender1) : a \in {A_reset, A_quit, A_other, A_braces}}
    \cup {Msg(A_pqstar, <<>>, Sender2)}
    \cup {Msg(A_nstar, <<>>, Sender1)}
    \cup {Msg(A_qpstar, <<>>, Sender2)}
    \cup {Malformed}

\* outcomes of requests.get(url).json() and the three buffer lookups
NoFetch == [kind |-> "none"]
HttpOutcomes ==
    {[kind |-> "ok", accX |-> 2, accY |-> 2, accZ |-> 3],
     [kind |-> "ok", accX |-> 1, accY |-> 16777217, accZ |-> 16777219],
     [kind |-> "ConnectionError"],
     [kind |-> "KeyError"]}

(* --------------------------- pure functions --------------------------- *)

Abs(v) == IF v < 0 THEN -v ELSE v

\* spacing of float32 values around magnitude a: the least power of two q
\* with a < 2^24 * q
RECURSIVE Quantum(_, _)
Quantum(a, q) == IF a < F32_SIGNIFICAND * q THEN q ELSE Quantum(a, 2 * q)

\* trajectory[r,:] = v stores v as np.float32 and float(value) reads it back:
\* v rounded to the nearest float32, ties to the even significand
float32(v) ==
    LET a  == Abs(v)
        q  == Quantum(a, 1)
        r  == a % q
        lo == a - r
        n  == IF 2 * r < q THEN lo
              ELSE IF 2 * r > q THEN lo + q
              ELSE IF (lo \div q) % 2 = 0 THEN lo ELSE lo + q
    IN IF v < 0 THEN -n ELSE n

\* trajectory.flat: the buffer's elements in row-major order
flat(trajectory) ==
    [i \in 1..(rows * cols) |-> trajectory[((i - 1) \div cols) + 1][((i - 1) % cols) + 1]]

\* the characters of the addresses, in ASCII order
CharOrder ==
    <<"!", "*", ",", "-", "?", "[", "]",
      "a", "b", "c", "d", "e", "f", "g", "h", "i", "j", "k", "l", "m",
      "n", "o", "p", "q", "r", "s", "t", "u", "v", "w", "x", "y", "z", "{", "}">>

Ord(c) == CHOOSE i \in DOMAIN CharOrder : CharOrder[i] = c

\* fnmatch.translate, "[": the index in pat of the "]" that closes the class
\* opened at pat[1], scanning from j (a "!" and a "]" right after the "[" do
\* not close it); 0 when there is none
RECURSIVE ClassEnd(_, _)
ClassEnd(pat, j) ==
    IF j > Len(pat) THEN 0
    ELSE IF pat[j] = "]" THEN j
    ELSE ClassEnd(pat, j + 1)

ClassStart(pat) ==
    LET j1 == IF Len(pat) >= 2 /\ pat[2] = "!" THEN 3 ELSE 2
    IN IF j1 <= Len(pat) /\ pat[j1] = "]" THEN j1 + 1 ELSE j1

\* the exception re.compile raises for a pattern it rejects
re_error == "re.error"

\* sre_parse, class body: an item followed by "-" and another item is the
\* range lo-hi, and a range with lo > hi is rejected ("bad character range")
RECURSIVE BadRange(_)
BadRange(stuff) ==
    IF stuff = <<>> THEN FALSE
    ELSE IF Len(stuff) >= 3 /\ stuff[2] = "-"
         THEN Ord(stuff[1]) > Ord(stuff[3]) \/ BadRange(SubSeq(stuff, 4, Len(stuff)))
    ELSE BadRange(Tail(stuff))

\* c is one of the characters or in one of the ranges lo-hi of a class body
\* whose ranges are all ascending
RECURSIVE ClassHas(_, _)
ClassHas(c, stuff) ==
    IF stuff = <<>> THEN FALSE
    ELSE IF Len(stuff) >= 3 /\ stuff[2] = "-"
         THEN (Ord(stuff[1]) <= Ord(c) /\ Ord(c) <= Ord(stuff[3]))
              \/ ClassHas(c, SubSeq(stuff, 4, Len(stuff)))
    ELSE c = stuff[1] \/ ClassHas(c, Tail(stuff))

\* the class [stuff] applied to c: re_error when the class has a descending
\* range, whatever c is; else whether c is in the class
InClass(c, stuff) == IF BadRange(stuff) THEN re_error ELSE ClassHas(c, stuff)

\* re.compile(fnmatch.translate(pat)) raises: one of the closed classes of
\* pat has a descending range
RECURSIVE compileRaises(_)
compileRaises(pat) ==
    IF pat = <<>> THEN FALSE
    ELSE IF Head(pat) = "[" /\ ClassEnd(pat, ClassStart(pat)) # 0
         THEN LET j     == ClassEnd(pat, ClassStart(pat))
                  stuff == SubSeq(pat, IF pat[2] = "!" THEN 3 ELSE 2, j - 1)
              IN BadRange(stuff) \/ compileRaises(SubSeq(pat, j + 1, Len(pat)))
    ELSE compileRaises(Tail(pat))

\* the compiled pattern matched against the whole name: "*" matches any run
\* of characters, "?" one character, "[seq]" one character of seq, "[!seq]"
\* one character not in seq; a "[" that is not closed, "{", "}" and ","
\* stand for themselves
RECURSIVE reMatch(_, _)
reMatch(name, pat) ==
    IF pat = <<>> THEN name = <<>>
    ELSE IF Head(pat) = "*"
         THEN reMatch(name, Tail(pat))
              \/ (name # <<>> /\ reMatch(Tail(name), pat))
    ELSE IF name = <<>> THEN FALSE
    ELSE IF Head(pat) = "?" THEN reMatch(Tail(name), Tail(pat))
    ELSE IF Head(pat) = "[" /\ ClassEnd(pat, ClassStart(pat)) # 0
         THEN LET j      == ClassEnd(pat, ClassStart(pat))
                  negate == pat[2] = "!"
                  stuff  == SubSeq(pat, IF negate THEN 3 ELSE 2, j - 1)
              IN /\ InClass(Head(name), stuff) # negate
                 /\ reMatch(Tail(name), SubSeq(pat, j + 1, Len(pat)))
    ELSE Head(pat) = Head(name) /\ reMatch(Tail(name), Tail(pat))

\* fnmatch.fnmatchcase(name, pat): the pattern is translated and compiled,
\* which raises re_error for every name when a class has a descending range,
\* and then matched against the name
fnmatchcase(name, pat) ==
    IF compileRaises(pat) THEN re_error ELSE reMatch(name, pat)

\* AddressNode.isWildcard: wildcardChars = set("*?[]{}")
isWildcard(part) == \E i \in DOMAIN part : part[i] \in {"*", "?", "[", "]", "{", "}"}

\* Receiver.getCallbacks raises: a wildcard address is matched against the
\* registered addresses with fnmatchcase, and the first comparison raises
\* when the address does not compile
getCallbacksRaises(table, address) ==
    /\ isWildcard(address)
    /\ table # {}
    /\ compileRaises(address)

getCallbacks_mut(table, address) ==
    {e.cb : e \in {e \in table : e.pattern = address /\ e.cb # "msg_nextframe"}}

\* Receiver.getCallbacks: the callbacks of every registered address the
\* message's address pattern matches; re_error when the matching raises
getCallbacks(table, address) ==
    IF getCallbacksRaises(table, address) THEN re_error
    ELSE {e.cb : e \in {e \in table :
            IF isWildcard(address) THEN fnmatchcase(e.pattern, address)
            ELSE e.pattern = address}}

\* the orders in which a set of callbacks may be iterated
Orders(S) == {o \in [1..Cardinality(S) -> S] : Range(o) = S}

(* ------------------------------ handlers ------------------------------ *)
(* A handler maps the object's fields m to the fields after the call.     *)
(* m.raised names the exception that left the handler ("none" if none);   *)
(* m.http is the answer the sensor gives during this dispatch.            *)

raise(m, exc) == [m EXCEPT !.raised = exc]

\* DatagramClientProtocol.send(message, (host, port))
send(m, address, args, dest) ==
    [m EXCEPT !.sent = Append(@, [address |-> address, args |-> args, dest |-> dest])]

_reset_parameters_mut(m) ==
    [m EXCEPT !.xfreq = 25, !.xphase = 0, !.yphase = 0]

_reset_parameters(m) ==
    [m EXCEPT !.xfreq = 25, !.yfreq = 25, !.xphase = 0, !.yphase = 0]

msg_fallback(m, message, address) == m

msg_reset(m, message, address) == _reset_parameters(m)

\* reactor.stop() raises ReactorNotRunning once the reactor is stopping
msg_quit(m, message, address) ==
    IF m.stopped THEN raise(m, "ReactorNotRunning")
    ELSE [m EXCEPT !.stopped = TRUE]

msg_ping_srcport(m, message, address) ==
    LET m1 == [m EXCEPT !.ping_count = @ + 1]
    IN send(m1, A_pong, <<m1.ping_count>>, <<address[1], address[2]>>)

msg_ping(m, message, address) ==
    LET send_host == address[1]
        m1 == [m EXCEPT !.ping_count = @ + 1]
    IN send(m1, A_pong, <<m1.ping_count>>, <<send_host, PYTHON_NODE_SEND_PORT>>)

msg_xfreq(m, message, address) ==
    IF message.args = <<>> THEN raise(m, "IndexError")
    ELSE [m EXCEPT !.xfreq = message.args[1]]

msg_yfreq_mut(m, message, address) ==
    IF message.args = <<>> THEN raise(m, "IndexError")
    ELSE [m EXCEPT !.xfreq = message.args[1]]

msg_yfreq(m, message, address) ==
    IF message.args = <<>> THEN raise(m, "IndexError")
    ELSE [m EXCEPT !.yfreq = message.args[1]]

msg_nextframe_phase(m, message, address) ==
    IF m.http.kind # "ok" THEN raise(m, m.http.kind)
    ELSE LET trajectory == [r \in 1..rows |-> [c \in 1..cols |->
                               IF r = 1 THEN float32(m.http.accY)
                               ELSE float32(m.http.accZ)]]
             m1 == [m EXCEPT !.xphase = @ + (50 - m.xfreq),
                             !.yphase = @ + (50 - m.yfreq)]
         IN send(m1, A_trajectory, <<cols, rows>> \o flat(trajectory),
                 <<address[1], PYTHON_NODE_SEND_PORT>>)

msg_nextframe_mut(m, message, address) ==
    IF m.http.kind # "ok" THEN raise(m, m.http.kind)
    ELSE LET trajectory == [r \in 1..rows |-> [c \in 1..cols |->
                               IF r = 1 THEN float32(m.http.accX)
                               ELSE float32(m.http.accZ)]]
         IN send(m, A_trajectory, <<cols, rows>> \o flat(trajectory),
                 <<address[1], PYTHON_NODE_SEND_PORT>>)

msg_nextframe(m, message, address) ==
    IF m.http.kind # "ok" THEN raise(m, m.http.kind)
    ELSE LET accX == m.http.accX
             accY == m.http.accY
             accZ == m.http.accZ
             trajectory == [r \in 1..rows |-> [c \in 1..cols |->
                               IF r = 1 THEN float32(accY) ELSE float32(accZ)]]
             samples == flat(trajectory)
             send_host == address[1]
         IN send(m, A_trajectory, <<cols, rows>> \o samples,
                 <<send_host, PYTHON_NODE_SEND_PORT>>)

(* ------------------------------ dispatch ------------------------------ *)

\* one callback call c(m, client)
Invoke(m, cb, message, client) ==
    LET m1 == [m EXCEPT !.calls = Append(@, cb)]
    IN CASE cb = "msg_reset"     -> msg_reset(m1, message, client)
         [] cb = "msg_quit"      -> msg_quit(m1, message, client)
         [] cb = "msg_ping"      -> msg_ping(m1, message, client)
         [] cb = "msg_xfreq"     -> msg_xfreq(m1, message, client)
         [] cb = "msg_yfreq"     -> msg_yfreq(m1, message, client)
         [] cb = "msg_nextframe" -> msg_nextframe(m1, message, client)
         [] cb = "msg_fallback"  -> msg_fallback(m1, message, client)
         [] OTHER                -> m1

\* for c in self.getCallbacks(m.address): c(m, client)
\* an exception leaves the loop, the later callbacks are not called
RECURSIVE callEach(_, _, _, _)
callEach(m, order, message, client) ==
    IF order = <<>> \/ m.raised # "none" THEN m
    ELSE callEach(Invoke(m, Head(order), message, client), Tail(order), message, client)

\* Receiver.dispatch(element, client); order is the iteration order of the
\* set of matching callbacks; an exception of getCallbacks leaves dispatch
\* before any callback and before the fallback
dispatch(m, table, fb, message, client, order) ==
    IF getCallbacksRaises(table, message.address) THEN raise(m, re_error)
    ELSE IF order # <<>> THEN callEach(m, order, message, client)
    ELSE Invoke(m, fb, message, client)

_elementFromBinary_mut(data) == [data EXCEPT !.ok = TRUE]

\* txosc decodes the datagram; ok is FALSE when it raises OscError
_elementFromBinary(data) == data

\* DatagramServerProtocol.datagramReceived(data, (host, port))
datagramReceived(m, table, fb, data, order) ==
    LET element == _elementFromBinary(data)
    IN IF ~element.ok THEN raise(m, "OscError")
       ELSE dispatch(m, table, fb, element, data.sender, order)

protectedCall_mut(m) == [m EXCEPT !.crashed = (m.raised # "none")]

\* udp.Port.doRead: try: protocol.datagramReceived(data, addr)
\*                  except: log.err()
\* the exception is logged and the read loop goes on
protectedCall(m) == m

(* ------------------------------- state -------------------------------- *)

Fields ==
    [xfreq |-> xfreq, yfreq |-> yfreq, xphase |-> xphase, yphase |-> yphase,
     ping_count |-> ping_count]

Params(m) ==
    [xfreq |-> m.xfreq, yfreq |-> m.yfreq, xphase |-> m.xphase, yphase |-> m.yphase,
     ping_count |-> m.ping_count]

\* OscServer.__init__
NewServer ==
    _reset_parameters([xfreq |-> 0, yfreq |-> 0, xphase |-> 0, yphase |-> 0,
                       ping_count |-> 0])

Init ==
    /\ state = "Created"
    /\ exit = "none"
    /\ stopped = FALSE
    /\ inRead = FALSE
    /\ read = 0
    /\ sockbuf = <<>>
    /\ seqbuf = <<>>
    /\ current = <<>>
    /\ arrivals = 0
    /\ dropped = <<>>
    /\ recvSock = "unbound"
    /\ sendSock = "unbound"
    /\ closes = 0
    /\ callbacks = {}
    /\ fallback = "none"
    /\ xfreq = NewServer.xfreq
    /\ yfreq = NewServer.yfreq
    /\ xphase = NewServer.xphase
    /\ yphase = NewServer.yphase
    /\ ping_count = NewServer.ping_count
    /\ sent = <<>>
    /\ trace = <<>>

(* ------------------------------ actions ------------------------------- *)

\* osc_server.listen(reactor), first part: bind the receive port, then the
\* send port.  A failed bind raises CannotListenError out of listen() and
\* of the script; the process ends and its sockets with it.
ListenBind ==
    /\ state = "Created"
    /\ exit = "none"
    /\ recvSock = "unbound"
    /\ \E bind \in {"ok", "recv fails", "send fails"} :
        /\ recvSock' = CASE bind = "ok" -> "open"
                         [] bind = "recv fails" -> "unbound"
                         [] bind = "send fails" -> "closed"
        /\ sendSock' = IF bind = "ok" THEN "open" ELSE "unbound"
        /\ exit' = IF bind = "ok" THEN exit ELSE "error"
    /\ UNCHANGED <<state, stopped, inRead, read, sockbuf, seqbuf, current, arrivals, dropped,
                   closes, callbacks, fallback, xfreq, yfreq, xphase, yphase,
                   ping_count, sent, trace>>

\* osc_server.listen(reactor), second part: register the six callbacks and
\* the fallback, and return
Listen ==
    /\ state = "Created"
    /\ exit = "none"
    /\ recvSock = "open"
    /\ state' = "Listening"
    /\ callbacks' = Range(Registrations)
    /\ fallback' = "msg_fallback"
    /\ UNCHANGED <<exit, stopped, inRead, read, sockbuf, seqbuf, current, arrivals, dropped,
                   recvSock, sendSock, closes, xfreq, yfreq, xphase, yphase,
                   ping_count, sent, trace>>

Run_mut ==
    /\ state \in {"Created", "Listening"}
    /\ recvSock # "unbound" \/ exit = "error"
    /\ state' = "Running"
    /\ UNCHANGED <<exit, stopped, inRead, read, sockbuf, seqbuf, current, arrivals, dropped,
                   recvSock, sendSock, closes, callbacks, fallback, xfreq, yfreq,
                   xphase, yphase, ping_count, sent, trace>>

\* twisted.internet.reactor.run()
Run ==
    /\ state = "Listening"
    /\ state' = "Running"
    /\ UNCHANGED <<exit, stopped, inRead, read, sockbuf, seqbuf, current, arrivals, dropped,
                   recvSock, sendSock, closes, callbacks, fallback, xfreq, yfreq,
                   xphase, yphase, ping_count, sent, trace>>

\* a peer sends datagram d to the receive port: the kernel queues it on the
\* bound socket, or it is lost (no open socket, or the queue is full)
Arrive(d) ==
    /\ arrivals < MaxArrivals
    /\ exit # "error"
    /\ arrivals' = arrivals + 1
    /\ IF recvSock = "open" /\ Len(sockbuf) < MaxQueue
       THEN /\ sockbuf' = Append(sockbuf, d)
            /\ seqbuf' = Append(seqbuf, arrivals + 1)
            /\ dropped' = dropped
       ELSE /\ sockbuf' = sockbuf
            /\ seqbuf' = seqbuf
            /\ dropped' = Append(dropped, [seq |-> arrivals + 1, state |-> state])
    /\ UNCHANGED <<state, exit, stopped, inRead, read, current, recvSock, sendSock, closes,
                   callbacks, fallback, xfreq, yfreq, xphase, yphase, ping_count,
                   sent, trace>>

CanRead_reentrant == state = "Running" /\ sockbuf # <<>> /\ (inRead \/ ~stopped)

CanRead_early == sockbuf # <<>> /\ current = <<>> /\ (inRead \/ ~stopped)

\* the reactor calls the receive port's doRead only while it runs and is not
\* stopping; a doRead already under way goes on until the socket has no more
\* datagrams or maxThroughput bytes have been read.  The one reactor thread takes the next datagram only after the
\* handlers of the previous one have returned.
CanRead ==
    state = "Running" /\ sockbuf # <<>> /\ current = <<>> /\ (inRead \/ ~stopped)

Take_mut ==
    /\ CanRead
    /\ current' = Append(current,
                     [data |-> sockbuf[Len(sockbuf)], seq |-> seqbuf[Len(seqbuf)],
                      inRead |-> inRead, fields |-> Fields, ntrace |-> Len(trace),
                      nsent |-> Len(sent)])
    /\ sockbuf' = SubSeq(sockbuf, 1, Len(sockbuf) - 1)
    /\ seqbuf' = SubSeq(seqbuf, 1, Len(seqbuf) - 1)
    /\ inRead' = TRUE
    /\ read' = read + sockbuf[Len(sockbuf)].size
    /\ UNCHANGED <<state, exit, stopped, arrivals, dropped, recvSock, sendSock, closes,
                   callbacks, fallback, xfreq, yfreq, xphase, yphase, ping_count,
                   sent, trace>>

\* one pass of the loop in udp.Port.doRead, first part: recvfrom() takes the
\* oldest queued datagram, its length is added to read, and
\* protocol.datagramReceived is entered
Take ==
    /\ CanRead
    /\ current' = Append(current,
                     [data |-> Head(sockbuf), seq |-> Head(seqbuf), inRead |-> inRead,
                      fields |-> Fields, ntrace |-> Len(trace), nsent |-> Len(sent)])
    /\ sockbuf' = Tail(sockbuf)
    /\ seqbuf' = Tail(seqbuf)
    /\ inRead' = TRUE
    /\ read' = read + Head(sockbuf).size
    /\ UNCHANGED <<state, exit, stopped, arrivals, dropped, recvSock, sendSock, closes,
                   callbacks, fallback, xfreq, yfreq, xphase, yphase, ping_count,
                   sent, trace>>

\* second part: the datagram is decoded and dispatched, the matching
\* callbacks run (msg_nextframe blocks in requests.get until the sensor
\* answers) and datagramReceived returns; the loop condition
\* read < maxThroughput is tested and doRead returns when it fails, whatever
\* is still queued
Recv ==
    /\ current # <<>>
    /\ LET data == current[Len(current)].data
       IN \E matched \in {IF /\ _elementFromBinary(data).ok
                              /\ ~getCallbacksRaises(callbacks, data.address)
                           THEN getCallbacks(callbacks, data.address) ELSE {}} :
          \E order \in Orders(matched) :
          \E http \in (IF "msg_nextframe" \in matched THEN HttpOutcomes ELSE {NoFetch}) :
            LET m0 == [xfreq |-> xfreq, yfreq |-> yfreq, xphase |-> xphase,
                       yphase |-> yphase, ping_count |-> ping_count, sent |-> sent,
                       stopped |-> stopped, raised |-> "none", crashed |-> FALSE,
                       calls |-> <<>>, http |-> http]
            IN \E m1 \in {protectedCall(datagramReceived(m0, callbacks, fallback, data, order))} :
               /\ xfreq' = m1.xfreq
               /\ yfreq' = m1.yfreq
               /\ xphase' = m1.xphase
               /\ yphase' = m1.yphase
               /\ ping_count' = m1.ping_count
               /\ sent' = m1.sent
               /\ stopped' = m1.stopped
               /\ state' = IF m1.crashed THEN "Stopped" ELSE state
               /\ exit' = IF m1.crashed THEN "error" ELSE exit
               /\ trace' = Append(trace,
                    [dgram |-> data, calls |-> m1.calls, raised |-> m1.raised,
                     http |-> http, before |-> Params(m0), after |-> Params(m1),
                     replies |-> SubSeq(m1.sent, Len(sent) + 1, Len(m1.sent)),
                     stoppedBefore |-> stopped, inRead |-> current[Len(current)].inRead,
                     state |-> state, crashed |-> m1.crashed,
                     seq |-> current[Len(current)].seq, taken |-> current[Len(current)],
                     table |-> callbacks, fb |-> fallback,
                     queued |-> IF "msg_quit" \in Range(m1.calls) THEN seqbuf ELSE <<>>])
    /\ current' = SubSeq(current, 1, Len(current) - 1)
    /\ inRead' = (inRead /\ read < maxThroughput)
    /\ read' = IF read < maxThroughput THEN read ELSE 0
    /\ UNCHANGED <<sockbuf, seqbuf, arrivals, dropped, recvSock, sendSock,
                   closes, callbacks, fallback>>

\* recvfrom() finds the queue empty (EWOULDBLOCK): doRead returns
EndRead ==
    /\ state = "Running"
    /\ inRead
    /\ current = <<>>
    /\ sockbuf = <<>>
    /\ inRead' = FALSE
    /\ read' = 0
    /\ UNCHANGED <<state, exit, stopped, sockbuf, seqbuf, current, arrivals, dropped,
                   recvSock, sendSock, closes, callbacks, fallback, xfreq, yfreq,
                   xphase, yphase, ping_count, sent, trace>>

\* SIGINT / SIGTERM: the handlers run() installs call reactor.stop()
Signal ==
    /\ state = "Running"
    /\ ~inRead
    /\ ~stopped
    /\ stopped' = TRUE
    /\ UNCHANGED <<state, exit, inRead, read, sockbuf, seqbuf, current, arrivals, dropped,
                   recvSock, sendSock, closes, callbacks, fallback, xfreq, yfreq,
                   xphase, yphase, ping_count, sent, trace>>

Shutdown_mut ==
    /\ state = "Running"
    /\ ~inRead
    /\ sockbuf = <<>>
    /\ state' = "Stopped"
    /\ exit' = "clean"
    /\ recvSock' = "closed"
    /\ sendSock' = "closed"
    /\ closes' = closes + 1
    /\ sockbuf' = <<>>
    /\ seqbuf' = <<>>
    /\ UNCHANGED <<stopped, inRead, read, current, arrivals, dropped, callbacks, fallback,
                   xfreq, yfreq, xphase, yphase, ping_count, sent, trace>>

Shutdown_again ==
    /\ state \in {"Running", "Stopped"}
    /\ stopped
    /\ ~inRead
    /\ closes < 2
    /\ state' = "Stopped"
    /\ exit' = "clean"
    /\ recvSock' = "closed"
    /\ sendSock' = "closed"
    /\ closes' = closes + 1
    /\ sockbuf' = <<>>
    /\ seqbuf' = <<>>
    /\ UNCHANGED <<stopped, inRead, read, current, arrivals, dropped, callbacks, fallback,
                   xfreq, yfreq, xphase, yphase, ping_count, sent, trace>>

\* the reactor's next iteration sees _stopped: it fires the shutdown event,
\* which closes both ports, and run() returns
Shutdown ==
    /\ state = "Running"
    /\ stopped
    /\ ~inRead
    /\ state' = "Stopped"
    /\ exit' = "clean"
    /\ recvSock' = "closed"
    /\ sendSock' = "closed"
    /\ closes' = closes + 1
    /\ sockbuf' = <<>>
    /\ seqbuf' = <<>>
    /\ UNCHANGED <<stopped, inRead, read, current, arrivals, dropped, callbacks, fallback,
                   xfreq, yfreq, xphase, yphase, ping_count, sent, trace>>

Next ==
    \/ ListenBind
    \/ Listen
    \/ Run
    \/ \E d \in Datagrams : Arrive(d)
    \/ Take
    \/ Recv
    \/ EndRead
    \/ Signal
    \/ Shutdown

Spec == Init /\ [][Next]_vars

(* ------------------------------- claims ------------------------------- *)

Store(p) == <<p.xfreq, p.yfreq, p.xphase, p.yphase>>

\* the fields a dispatch starts from, rebuilt from its trace record
EntryStart(e) ==
    [xfreq |-> e.before.xfreq, yfreq |-> e.before.yfreq, xphase |-> e.before.xphase,
     yphase |-> e.before.yphase, ping_count |-> e.before.ping_count, sent |-> <<>>,
     stopped |-> e.stoppedBefore, raised |-> "none", crashed |-> FALSE,
     calls |-> <<>>, http |-> e.http]

\* number of /ping messages among the first n datagrams dispatched
PingMessages(n) == Cardinality({i \in 1..n : trace[i].dgram.address = A_ping})

\* number of /ping and /nextframe messages among them
ReplyingMessages(n) ==
    Cardinality({i \in 1..n : trace[i].dgram.address \in {A_ping, A_nextframe}})

Pongs == SelectSeq(sent, LAMBDA r : r.address = A_pong)

Copies(n, v) == [i \in 1..n |-> v]

\* C1: a message whose address is one of the six registered addresses is
\* handed to the callback registered for that address, once, and to no other
\* callback nor to the fallback.
C1_RegisteredRouting ==
    \A i \in DOMAIN trace :
        LET e == trace[i]
        IN (e.dgram.ok /\ e.dgram.address \in RegisteredAddresses) =>
            /\ e.state = "Running"
            /\ \E r \in Range(Registrations) :
                   r.pattern = e.dgram.address /\ e.calls = <<r.cb>>

C1_Witness ==
    /\ Len(trace) = 2
    /\ trace[1].dgram.address = A_nextframe /\ trace[1].calls = <<"msg_nextframe">>
    /\ trace[2].dgram.address = A_quit /\ trace[2].calls = <<"msg_quit">>

\* C2: a message whose address is not one of the six registered addresses
\* goes to the fallback, once, and the four parameters keep their values.
C2_UnregisteredToFallback ==
    \A i \in DOMAIN trace :
        LET e == trace[i]
        IN (e.dgram.ok /\ e.dgram.address \notin RegisteredAddresses) =>
            /\ e.calls = <<"msg_fallback">>
            /\ Store(e.after) = Store(e.before)

\* the input it fails on: /?freq 6 is no registered address, yet it reaches
\* msg_xfreq and msg_yfreq, never the fallback, and both parameters change
C2_Witness ==
    /\ Len(trace) = 1
    /\ trace[1].dgram = Msg(A_qfreq, <<6>>, Sender1)
    /\ Range(trace[1].calls) = {"msg_xfreq", "msg_yfreq"}
    /\ Store(trace[1].before) = <<25, 25, 0, 0>>
    /\ Store(Fields) = <<6, 6, 0, 0>>

\* C3: once a /reset message has been processed the parameters are
\* 25, 25, 0.0, 0.0 whatever was processed before, and a second /reset right
\* after it leaves the same state.
C3_ResetRestoresDefaults ==
    /\ \A i \in DOMAIN trace :
        trace[i].dgram.address = A_reset =>
            /\ trace[i].calls = <<"msg_reset">>
            /\ Store(trace[i].after) = <<25, 25, 0, 0>>
    /\ \A i \in DOMAIN trace :
        (i > 1 /\ trace[i].dgram.address = A_reset /\ trace[i - 1].dgram.address = A_reset) =>
            trace[i].after = trace[i - 1].after
    /\ _reset_parameters(_reset_parameters(Fields)) = _reset_parameters(Fields)

C3_Witness ==
    /\ Len(trace) = 2
    /\ trace[1].dgram.address = A_qfreq
    /\ Store(trace[1].after) = <<6, 6, 0, 0>>
    /\ trace[2].dgram.address = A_reset
    /\ Store(Fields) = <<25, 25, 0, 0>>

\* C4: the k-th /ping message dispatched since the start is answered by one
\* /pong carrying k, whoever its sender is, and the values the /pong replies
\* carry increase strictly.
C4_KthPingCarriesK ==
    /\ \A i \in DOMAIN trace :
        trace[i].dgram.address = A_ping =>
            /\ Len(trace[i].replies) = 1
            /\ trace[i].replies[1].address = A_pong
            /\ trace[i].replies[1].args = <<PingMessages(i)>>
    /\ \A k \in DOMAIN Pongs : \A l \in DOMAIN Pongs :
        k < l => Pongs[k].args[1] < Pongs[l].args[1]

\* the input it fails on: /*n* reaches msg_ping first, so the first /ping
\* message is answered with 2
C4_Witness ==
    /\ Len(trace) = 2
    /\ trace[1].dgram.address = A_nstar
    /\ "msg_ping" \in Range(trace[1].calls)
    /\ trace[2].dgram = Msg(A_ping, <<>>, Sender2)
    /\ PingMessages(2) = 1
    /\ trace[2].replies[1].args = <<2>>

\* C5 as stated: /nextframe with sensor values (a, b, c) sends one
\* /trajectory reply with 10, 2, ten copies of b and ten copies of c; the
\* value a is nowhere in the reply.
C5_TrajectoryCopies ==
    \A i \in DOMAIN trace :
        LET e == trace[i]
        IN (e.dgram.address = A_nextframe /\ e.http.kind = "ok") =>
            /\ Len(e.replies) = 1
            /\ e.replies[1].address = A_trajectory
            /\ e.replies[1].args =
                   <<10, 2>> \o Copies(10, e.http.accY) \o Copies(10, e.http.accZ)
            /\ \A j \in DOMAIN e.replies[1].args : e.replies[1].args[j] # e.http.accX

\* values the sensor may give for accX
AccXValues == {1, 2, 3, 10, 16777217}

\* C5 amended: /nextframe with sensor values (a, b, c) sends one /trajectory
\* reply with 10, 2, ten copies of b rounded to single precision and ten
\* copies of c rounded to single precision; a plays no part: the reply is
\* the same whatever a is.
C5_TrajectoryFloat32Copies ==
    \A i \in DOMAIN trace :
        LET e == trace[i]
        IN (e.dgram.address = A_nextframe /\ e.http.kind = "ok") =>
            /\ Len(e.replies) = 1
            /\ e.replies[1].address = A_trajectory
            /\ e.replies[1].args =
                   <<10, 2>> \o Copies(10, float32(e.http.accY))
                             \o Copies(10, float32(e.http.accZ))
            /\ \A a \in AccXValues :
                LET m == [EntryStart(e) EXCEPT !.http.accX = a]
                IN msg_nextframe(m, e.dgram, e.dgram.sender).sent = e.replies

C5_Witness ==
    /\ Len(trace) = 2
    /\ \A i \in 1..2 : trace[i].dgram.address = A_nextframe /\ Len(trace[i].replies) = 1
    /\ trace[1].http = [kind |-> "ok", accX |-> 2, accY |-> 2, accZ |-> 3]
    /\ trace[1].replies[1].args[3] = 2
    /\ trace[1].replies[1].args[22] = 3
    /\ trace[2].http.accY = 16777217
    /\ trace[2].replies[1].args[12] = 16777216
    /\ trace[2].replies[1].args[13] = 16777220

\* C6: once /quit has been processed no datagram is dispatched any more:
\* not one that was already queued on the receive socket when /quit was
\* processed, and none once the runtime is Stopped.
C6_NothingDispatchedAfterQuit ==
    /\ \A i \in DOMAIN trace : \A j \in DOMAIN trace :
        (i < j /\ trace[i].dgram.address = A_quit) =>
            trace[j].seq \notin Range(trace[i].queued)
    /\ \A j \in DOMAIN trace : trace[j].state # "Stopped"
    /\ state = "Stopped" => current = <<>>

\* the input it fails on: /ping is queued behind /quit; it is dispatched and
\* answered before the runtime stops
C6_Witness ==
    /\ state = "Stopped"
    /\ Len(trace) = 2
    /\ trace[1].dgram.address = A_quit
    /\ trace[1].queued = <<2>>
    /\ trace[2].seq = 2
    /\ trace[2].dgram.address = A_ping
    /\ trace[2].stoppedBefore
    /\ ping_count = 1
    /\ Len(sent) = 1 /\ sent[1].address = A_pong

\* C7: the runtime state changes only by Created -> Listening (listen()),
\* Listening -> Running (the event loop starts) and Running -> Stopped (the
\* reactor was stopped by a processed /quit or by a signal); nothing leaves
\* Stopped.
C7_StateChain ==
    [][ /\ (state' # state) =>
            \/ state = "Created" /\ state' = "Listening" /\ Listen
            \/ state = "Listening" /\ state' = "Running" /\ Run
            \/ state = "Running" /\ state' = "Stopped" /\ Shutdown /\ stopped
        /\ (stopped' /\ ~stopped) =>
            \/ Signal
            \/ Recv /\ "msg_quit" \in Range(trace'[Len(trace')].calls)
        /\ state = "Stopped" => state' = "Stopped" ]_vars

C7_Witness ==
    /\ state = "Stopped"
    /\ Len(trace) = 1
    /\ trace[1].dgram.address = A_xfreq
    /\ xfreq = 7
    /\ Len(dropped) = 1
    /\ dropped[1].state = "Stopped"

\* a valid datagram: it decodes and its address compiles as a pattern
Valid(e) == e.dgram.ok /\ ~getCallbacksRaises(e.table, e.dgram.address)

C10_ReplyDestination ==
    /\ \A i \in DOMAIN trace :
        \A k \in DOMAIN trace[i].replies :
            /\ trace[i].replies[k].address \in {A_pong, A_trajectory}
            /\ trace[i].replies[k].dest = <<trace[i].dgram.sender[1], 12000>>
    /\ \A k \in DOMAIN sent : sent[k].dest[2] = PYTHON_NODE_SEND_PORT

C10_Witness ==
    /\ Len(sent) = 2
    /\ sent[1].address = A_pong
    /\ sent[1].dest = <<"10.0.0.1", 12000>>
    /\ sent[2].address = A_trajectory
    /\ sent[2].dest = <<"10.0.0.2", 12000>>

HandlerFailures == {"ConnectionError", "KeyError", "IndexError"}

\* C11: when a handler fails (sensor fetch failure in /nextframe, /xfreq or
\* /yfreq without arguments) the parameters and the ping counter are as they
\* were before the datagram and the datagram causes no reply.
C11_FailedDatagramChangesNothing ==
    \A i \in DOMAIN trace :
        trace[i].raised \in HandlerFailures =>
            trace[i].after = trace[i].before /\ trace[i].replies = <<>>

\* the input it fails on: /*n* reaches msg_ping, which counts and answers,
\* and then msg_nextframe, whose sensor fetch fails
C11_Witness ==
    /\ Len(trace) = 1
    /\ trace[1].dgram.address = A_nstar
    /\ trace[1].calls = <<"msg_ping", "msg_nextframe">>
    /\ trace[1].raised = "ConnectionError"
    /\ trace[1].before.ping_count = 0
    /\ ping_count = 1
    /\ Len(trace[1].replies) = 1

\* C12: /xfreq with first argument v sets xfreq to v, whatever v is, and
\* changes nothing else; /yfreq with first argument v sets yfreq to v and
\* changes nothing else; further arguments play no part.
C12_FreqSetsOneField ==
    \A i \in DOMAIN trace :
        LET e == trace[i]
        IN /\ (e.dgram.address = A_xfreq /\ e.dgram.args # <<>>) =>
                /\ e.after = [e.before EXCEPT !.xfreq = e.dgram.args[1]]
                /\ e.replies = <<>>
                /\ e.raised = "none"
           /\ (e.dgram.address = A_yfreq /\ e.dgram.args # <<>>) =>
                /\ e.after = [e.before EXCEPT !.yfreq = e.dgram.args[1]]
                /\ e.replies = <<>>
                /\ e.raised = "none"

C12_Witness ==
    /\ Len(trace) = 2
    /\ trace[1].dgram = Msg(A_xfreq, <<7, 9>>, Sender1)
    /\ trace[2].dgram = Msg(A_yfreq, <<8>>, Sender1)
    /\ Fields = [xfreq |-> 7, yfreq |-> 8, xphase |-> 0, yphase |-> 0, ping_count |-> 0]

\* the replies of the first n dispatches, in order
RECURSIVE RepliesUpTo(_)
RepliesUpTo(n) == IF n = 0 THEN <<>> ELSE RepliesUpTo(n - 1) \o trace[n].replies

\* C13: datagrams are dispatched in the order in which they were received;
\* when the handling of one starts, the handling of every earlier one is
\* over and its replies are sent: replies leave in the order of the requests.
C13_DispatchInArrivalOrder ==
    /\ \A i \in DOMAIN trace : \A j \in DOMAIN trace :
        i < j => trace[i].seq < trace[j].seq
    /\ \A i \in DOMAIN trace : \A k \in DOMAIN seqbuf : trace[i].seq < seqbuf[k]
    /\ \A k \in DOMAIN current : \A j \in DOMAIN seqbuf : current[k].seq < seqbuf[j]
    /\ \A j \in DOMAIN trace :
        /\ trace[j].taken.ntrace = j - 1
        /\ trace[j].taken.nsent = Len(RepliesUpTo(j - 1))
    /\ sent = RepliesUpTo(Len(trace))

C13_Witness ==
    /\ Len(trace) = 2
    /\ trace[1].dgram = Msg(A_ping, <<>>, Sender2)
    /\ trace[1].seq = 1
    /\ trace[2].dgram = Msg(A_ping, <<>>, Sender1)
    /\ trace[2].seq = 2
    /\ trace[2].inRead
    /\ sent[1].dest[1] = Sender2[1]
    /\ sent[2].dest[1] = Sender1[1]

\* C14: at most one datagram is being handled at any time; while its
\* handlers run (msg_nextframe blocked in the sensor fetch included) no other
\* datagram is dispatched and nothing else writes the fields, so a handler
\* sees the parameters exactly as the previous dispatch left them, after a
\* /reset all four defaults.
C14_OneHandlerAtATime ==
    /\ Len(current) <= 1
    /\ \A k \in DOMAIN current :
        /\ Fields = current[k].fields
        /\ Len(trace) = current[k].ntrace
        /\ Len(sent) = current[k].nsent
    /\ \A i \in DOMAIN trace :
        /\ trace[i].before = trace[i].taken.fields
        /\ trace[i].before = IF i = 1 THEN NewServer ELSE trace[i - 1].after
        /\ (i > 1 /\ trace[i - 1].dgram.address = A_reset) =>
               Store(trace[i].before) = <<25, 25, 0, 0>>

C14_Witness ==
    /\ Len(current) = 1
    /\ current[1].data.address = A_nextframe
    /\ Len(sockbuf) = 1
    /\ sockbuf[1].address = A_xfreq
    /\ Len(trace) = 0

\* C15: the receive and the send socket are closed once, in the step from
\* Running to Stopped, also when several /quit messages are handled: a /quit
\* handled when the stop flag is already set raises ReactorNotRunning, which
\* the read loop logs; it closes nothing and the process still ends cleanly.
C15_SocketsClosedOnce ==
    /\ closes <= 1
    /\ closes = 1 <=> state = "Stopped"
    /\ state = "Stopped" => (recvSock = "closed" /\ sendSock = "closed" /\ exit = "clean")
    /\ state \in {"Listening", "Running"} => (recvSock = "open" /\ sendSock = "open")
    /\ \A i \in DOMAIN trace :
        LET e == trace[i]
        IN ("msg_quit" \in Range(e.calls) /\ e.stoppedBefore) =>
            /\ e.raised = "ReactorNotRunning"
            /\ e.calls[Len(e.calls)] = "msg_quit"
            /\ ~e.crashed
            /\ e.state = "Running"
            /\ exit # "error"

C15_Witness ==
    /\ state = "Stopped"
    /\ closes = 1
    /\ exit = "clean"
    /\ Len(trace) = 2
    /\ trace[1].dgram.address = A_quit /\ trace[1].raised = "none"
    /\ trace[2].dgram.address = A_quit /\ trace[2].raised = "ReactorNotRunning"
    /\ trace[2].inRead

\* C16: when a bind in listen() fails the runtime stays Created for ever: no
\* handler table, no event loop, no dispatch, no reply, and the process has
\* ended with a failure and not with a clean shutdown; nothing happens any
\* more.  Listening and Running are reached only with both sockets bound.
C16_BindFailureIsFatal ==
    /\ exit = "error" =>
        /\ state = "Created"
        /\ recvSock # "open" /\ sendSock = "unbound"
        /\ callbacks = {} /\ fallback = "none"
        /\ trace = <<>> /\ current = <<>> /\ sent = <<>>
        /\ ~stopped /\ ~inRead /\ closes = 0
        /\ ~ENABLED Next
    /\ state # "Created" => (recvSock # "unbound" /\ sendSock # "unbound")
    /\ exit = "clean" <=> state = "Stopped"

C16_Witness ==
    /\ exit = "error"
    /\ state = "Created"
    /\ recvSock = "closed"
    /\ sendSock = "unbound"
    /\ arrivals = 0

C18_PhasesStayZero ==
    /\ xphase = 0 /\ yphase = 0
    /\ NewServer.xphase = 0 /\ NewServer.yphase = 0
    /\ \A i \in DOMAIN trace :
        /\ trace[i].before.xphase = 0 /\ trace[i].before.yphase = 0
        /\ trace[i].after.xphase = 0 /\ trace[i].after.yphase = 0

C18_Witness ==
    /\ Len(trace) = 2
    /\ trace[1].dgram = Msg(A_xfreq, <<7, 9>>, Sender1)
    /\ trace[2].dgram.address = A_nextframe
    /\ trace[2].http.kind = "ok"
    /\ Len(trace[2].replies) = 1
    /\ xfreq = 7
    /\ xphase = 0 /\ yphase = 0

\* C19: the ping counter never decreases, /reset, /xfreq, /yfreq,
\* /nextframe, /quit and the fallback leave it unchanged, and it always
\* equals the number of /ping messages dispatched since the start.
C19_CounterEqualsPingMessages ==
    /\ ping_count = PingMessages(Len(trace))
    /\ \A i \in DOMAIN trace :
        LET e == trace[i]
        IN /\ e.after.ping_count >= e.before.ping_count
           /\ (\/ e.dgram.address \in {A_reset, A_xfreq, A_yfreq, A_nextframe, A_quit}
               \/ e.calls = <<"msg_fallback">>) => e.after.ping_count = e.before.ping_count

\* the input it fails on: /[pq]* is no /ping message, yet it reaches msg_ping
C19_Witness ==
    /\ Len(trace) = 1
    /\ trace[1].dgram.address = A_pqstar
    /\ "msg_ping" \in Range(trace[1].calls)
    /\ PingMessages(1) = 0
    /\ ping_count = 1

\* C20: only /ping and /nextframe messages cause outbound datagrams, at most
\* one each; /reset, /quit, /xfreq, /yfreq and unmatched addresses send
\* nothing, so the datagrams sent never outnumber the /ping and /nextframe
\* messages dispatched.
C20_SentBoundedByMessages ==
    /\ Len(sent) <= ReplyingMessages(Len(trace))
    /\ \A i \in DOMAIN trace :
        LET e == trace[i]
        IN /\ e.dgram.address \in {A_ping, A_nextframe} => Len(e.replies) <= 1
           /\ e.dgram.address \notin {A_ping, A_nextframe} => e.replies = <<>>

\* the input it fails on: /*n* is neither /ping nor /nextframe, yet it is
\* answered with a /pong and a /trajectory
C20_Witness ==
    /\ Len(trace) = 1
    /\ trace[1].dgram.address = A_nstar
    /\ trace[1].http.kind = "ok"
    /\ ReplyingMessages(1) = 0
    /\ Len(sent) = 2
    /\ {sent[1].address, sent[2].address} = {A_pong, A_trajectory}

====
